---- MODULE Spec2Model ----
(***************************************************************************)
(* A model of the View Manager plugin's configuration code                 *)
(* (src/ViewManager/config.py): the per-library preferences record, its    *)
(* migration out of the legacy JSON store, and the configuration dialog    *)
(* (ConfigWidget) with its combo boxes and check lists.                    *)
(*                                                                         *)
(* Python dicts are functions whose DOMAIN is the set of keys; lists are   *)
(* sequences; tuples are sequences of length 2; None is the string None.   *)
(* Qt indexes (currentIndex, currentRow) are kept 0-based as in the code,  *)
(* -1 meaning "no current item".                                           *)
(***************************************************************************)
EXTENDS Integers, Sequences, FiniteSets, TLC

VARIABLES
    \* ---- the host's stores
    file_exists,      \* os.path.exists(plugin_prefs.file_path)
    plugin_prefs,     \* the legacy JSONConfig('plugins/View Manager')
    db_prefs,         \* library id -> the namespaced 'settings' record db.prefs holds in memory
    preferences,      \* library id -> that record as last written to the database's preferences table
    views_held,       \* self.views is the views dict of the record db.prefs holds
    default_library_values,  \* the module's dict DEFAULT_LIBRARY_VALUES
    call,             \* what the last store operation did (history)
    gets,             \* library id -> number of get_library_config calls so far (history)
    writes,           \* library id -> number of schema write-backs so far (history)
    \* ---- the configuration dialog (ConfigWidget)
    views,                       \* self.views
    view_name,                   \* self.view_name
    select_view_combo,           \* ViewComboBox: [items, idx]
    auto_view_combo,             \* ViewComboBox(special=True): [items, idx]
    columns_list,                \* ColumnListWidget: [items, row, saved_column_widths, all_columns_with_widths]
    sort_list,                   \* SortColumnListWidget: [items, row, asc_enabled, desc_enabled]
    apply_restriction_checkbox,  \* checked or not
    search_restriction_combo,    \* SearchComboBox: its current index
    apply_search_checkbox,       \* checked or not
    saved_search_combo,          \* SearchComboBox: its current index
    auto_apply_checkbox,         \* checked or not
    last,                        \* what the last dialog operation was and how it ended (history)
    persisted_form,              \* view name -> the form as persist_view_config last read it (history)
    left_form,                   \* select-view item -> the form as it was when the item was last left (history)
    steps                        \* number of user actions left in this run of the dialog

storeVars == <<file_exists, plugin_prefs, db_prefs, preferences, views_held,
               default_library_values, call, gets, writes>>

formVars == <<columns_list, sort_list, apply_restriction_checkbox,
              search_restriction_combo, apply_search_checkbox, saved_search_combo>>

dialogVars == <<views, view_name, select_view_combo, auto_view_combo, formVars,
                auto_apply_checkbox, last, persisted_form, left_form, steps>>

vars == <<storeVars, dialogVars>>

-----------------------------------------------------------------------------
(* Constants of config.py *)

STORE_LIBRARIES == "libraries"
KEY_VIEWS == "views"
KEY_LAST_VIEW == "lastView"
KEY_AUTO_APPLY_VIEW == "autoApplyView"
KEY_VIEW_TO_APPLY == "viewToApply"
KEY_SCHEMA_VERSION == "SchemaVersion"
LAST_VIEW_ITEM == "*Last View Used"

\* DEFAULT_SCHEMA_VERSION = 1.5, in tenths (the model has no floats)
DEFAULT_SCHEMA_VERSION == 15

\* Python's None
None == "<None>"

-----------------------------------------------------------------------------
(* Python dict operations *)

EmptyDict == [k \in {} |-> 0]

\* d.get(k, default)
DictGet(d, k, default) == IF k \in DOMAIN d THEN d[k] ELSE default

\* d[k] = v
DictSet(d, k, v) == [x \in (DOMAIN d) \cup {k} |-> IF x = k THEN v ELSE d[x]]

\* del d[k]
DictDel(d, k) == [x \in (DOMAIN d) \ {k} |-> d[x]]

DEFAULT_LIBRARY_VALUES ==
    [views |-> EmptyDict, lastView |-> "", autoApplyView |-> FALSE,
     viewToApply |-> LAST_VIEW_ITEM]

-----------------------------------------------------------------------------
(* The store operations: lines 93-145 *)

\* set_library_config: db.prefs.set_namespaced(PREFS_NAMESPACE, PREFS_KEY_SETTINGS, library_config).
\* db.prefs keeps the object library_config itself, so that the caller's
\* later changes of it are changes of what db.prefs holds.
set_library_config(db, library_id, library_config) ==
    DictSet(db, library_id, library_config)

\* A variant of migrate_library_config_if_required: the early return for a
\* record at the current version is missing, so the record is always written.
migrate_library_config_always(db, library_id, library_config) ==
    LET marked == DictSet(library_config, KEY_SCHEMA_VERSION, DEFAULT_SCHEMA_VERSION)
    IN  [db |-> set_library_config(db, library_id, marked),
         config |-> marked, wrote |-> TRUE]

\* A variant of migrate_library_config_if_required: the stale record is
\* written back without its SchemaVersion being set.
migrate_library_config_unmarked(db, library_id, library_config) ==
    LET schema_version == DictGet(library_config, KEY_SCHEMA_VERSION, 0)
    IN  IF schema_version = DEFAULT_SCHEMA_VERSION
        THEN [db |-> db, config |-> library_config, wrote |-> FALSE]
        ELSE [db |-> set_library_config(db, library_id, library_config),
              config |-> library_config, wrote |-> TRUE]

\* migrate_library_config_if_required: the record after the call, the db
\* after the call, and whether set_library_config was called.
migrate_library_config_if_required(db, library_id, library_config) ==
    LET schema_version == DictGet(library_config, KEY_SCHEMA_VERSION, 0)
    IN  IF schema_version = DEFAULT_SCHEMA_VERSION
        THEN [db |-> db, config |-> library_config, wrote |-> FALSE]
        ELSE LET marked == DictSet(library_config, KEY_SCHEMA_VERSION,
                                   DEFAULT_SCHEMA_VERSION)
             IN  [db |-> set_library_config(db, library_id, marked),
                  config |-> marked, wrote |-> TRUE]

\* A variant of copy.deepcopy that hands out the object itself.
same_object(obj) == [value |-> obj, shares |-> TRUE]

\* copy.deepcopy(obj): an equal value that shares no object with obj, so
\* that a later change of the one is no change of the other.
deepcopy(obj) == [value |-> obj, shares |-> FALSE]

\* What set_namespaced writes to the preferences table with the record db
\* holds for the library: its JSON, a value that later changes of the
\* object do not reach.
written(table, db, library_id) == DictSet(table, library_id, db[library_id])

\* get_library_config: the legacy entry of the library, when there is one,
\* is taken out of plugin_prefs (and the 'libraries' key with the last
\* entry); otherwise the record is read from the database, a copy of the
\* defaults standing in for a missing one.  Then the schema migration runs.
\* held: the record returned is the object db.prefs holds, which it is when
\* get_namespaced found it there or set_library_config put it there.
get_library_config(prefs, db, library_id) ==
    LET has_store == STORE_LIBRARIES \in DOMAIN prefs
        libraries == IF has_store THEN prefs[STORE_LIBRARIES] ELSE EmptyDict
        from_legacy == has_store /\ library_id \in DOMAIN libraries
        remaining == DictDel(libraries, library_id)
        prefs_after ==
            IF ~from_legacy THEN prefs
            ELSE IF Cardinality(DOMAIN remaining) = 0
                 THEN DictDel(prefs, STORE_LIBRARIES)
                 ELSE DictSet(prefs, STORE_LIBRARIES, remaining)
        default == deepcopy(default_library_values)
        loaded == IF from_legacy THEN libraries[library_id]
                  ELSE DictGet(db, library_id, default.value)
        migrated == migrate_library_config_if_required(db, library_id, loaded)
        \* the record returned is the default object handed to get_namespaced
        is_default == ~from_legacy /\ library_id \notin DOMAIN db
    IN  [prefs |-> prefs_after, db |-> migrated.db, config |-> migrated.config,
         wrote |-> migrated.wrote, from_legacy |-> from_legacy, loaded |-> loaded,
         held |-> (migrated.wrote \/ ~from_legacy),
         shares_defaults |-> is_default /\ default.shares,
         defaults |-> IF is_default /\ default.shares
                      THEN migrated.config ELSE default_library_values]

\* A variant of migrate_json_config_if_required: the file is removed without
\* waiting for the 'libraries' key to go.
migrate_json_config_unconditional(exists, prefs, remove_ok) ==
    IF ~exists
    THEN [file_exists |-> exists, attempted |-> FALSE]
    ELSE [file_exists |-> ~remove_ok, attempted |-> TRUE]

\* migrate_json_config_if_required: whether os.remove is attempted, and
\* whether the file exists afterwards.  remove_ok is the outcome of
\* os.remove; its exception is swallowed by the bare except.
migrate_json_config_if_required(exists, prefs, remove_ok) ==
    IF ~exists
    THEN [file_exists |-> exists, attempted |-> FALSE]
    ELSE IF STORE_LIBRARIES \notin DOMAIN prefs
         THEN [file_exists |-> ~remove_ok, attempted |-> TRUE]
         ELSE [file_exists |-> exists, attempted |-> FALSE]

-----------------------------------------------------------------------------
(* Stored values the model starts from *)

View(columns, sort, apply_restriction, restriction, apply_search, search) ==
    [columns |-> columns, sort |-> sort,
     applyRestriction |-> apply_restriction, restrictionToApply |-> restriction,
     applySearch |-> apply_search, searchToApply |-> search]

\* A view saved while the custom column '#gone' still existed.
StoredViewA ==
    View(<< <<"#gone", 7>>, <<"title", 12>> >>, << <<"title", 1>> >>,
         FALSE, "", TRUE, "s")

StoredViewB ==
    View(<< <<"ondevice", -1>>, <<"title", 10>> >>, << >>, FALSE, "", FALSE, "")

LibraryRecord(view_dict, last_view, auto_apply, view_to_apply) ==
    [views |-> view_dict, lastView |-> last_view, autoApplyView |-> auto_apply,
     viewToApply |-> view_to_apply]

WithSchema(record, version) == DictSet(record, KEY_SCHEMA_VERSION, version)

RecordA == LibraryRecord([n \in {"a"} |-> StoredViewA], "a", TRUE, "a")
RecordB == LibraryRecord([n \in {"b"} |-> StoredViewB], "b", FALSE, LAST_VIEW_ITEM)

\* A schema version older than the current one (1.4, in tenths).
StaleSchemaVersion == DEFAULT_SCHEMA_VERSION - 1

\* What a library's entry of the legacy JSON store may hold.
LegacyRecords ==
    {RecordA, WithSchema(RecordA, StaleSchemaVersion),
     WithSchema(RecordA, DEFAULT_SCHEMA_VERSION)}

\* What a library's database record may hold (besides being absent).
DatabaseRecords ==
    {WithSchema(RecordB, StaleSchemaVersion),
     WithSchema(RecordB, DEFAULT_SCHEMA_VERSION)}

Libraries == {"L1", "L2"}

\* get_library_config calls per library
MaxGets == 3

Dicts(keys, values) == UNION {[ks -> values] : ks \in SUBSET keys}

\* The legacy store: empty, or a 'libraries' key with at least one entry.
LegacyStores ==
    {EmptyDict} \cup
    {[k \in {STORE_LIBRARIES} |-> libs] :
        libs \in Dicts(Libraries, LegacyRecords) \ {EmptyDict}}

-----------------------------------------------------------------------------
(* The store specification: the two migrations, called in any order *)

\* No configuration dialog is open.
NoDialog ==
    /\ views = EmptyDict
    /\ views_held = FALSE
    /\ view_name = None
    /\ select_view_combo = [items |-> << >>, idx |-> -1]
    /\ auto_view_combo = [items |-> << >>, idx |-> -1]
    /\ columns_list = [items |-> << >>, row |-> -1,
                       saved_column_widths |-> EmptyDict,
                       all_columns_with_widths |-> << >>]
    /\ sort_list = [items |-> << >>, row |-> -1,
                    asc_enabled |-> TRUE, desc_enabled |-> TRUE]
    /\ apply_restriction_checkbox = FALSE
    /\ search_restriction_combo = -1
    /\ apply_search_checkbox = FALSE
    /\ saved_search_combo = -1
    /\ auto_apply_checkbox = FALSE
    /\ last = [op |-> "none", result |-> "none", text |-> None]
    /\ persisted_form = EmptyDict
    /\ left_form = EmptyDict
    /\ steps = 0

NoCall ==
    [op |-> "none", lib |-> None, config |-> EmptyDict, loaded |-> EmptyDict,
     wrote |-> FALSE, from_legacy |-> FALSE, attempted |-> FALSE,
     pre_file |-> FALSE, pre_prefs |-> EmptyDict, pre_db |-> EmptyDict,
     pre_table |-> EmptyDict, pre_gets |-> 0, pre_writes |-> 0,
     shares_defaults |-> FALSE, held |-> FALSE, mutated |-> FALSE]

InitStore ==
    /\ default_library_values = DEFAULT_LIBRARY_VALUES
    /\ file_exists \in BOOLEAN
    /\ plugin_prefs \in (IF file_exists THEN LegacyStores ELSE {EmptyDict})
    /\ db_prefs \in Dicts(Libraries, DatabaseRecords)
    /\ preferences = db_prefs
    /\ call = NoCall
    /\ gets = [l \in Libraries |-> 0]
    /\ writes = [l \in Libraries |-> 0]
    /\ NoDialog

\* The module is imported (line 662): migrate_json_config_if_required()
MigrateJsonConfigIfRequired ==
    \E remove_ok \in BOOLEAN :
        LET r == migrate_json_config_if_required(file_exists, plugin_prefs, remove_ok)
        IN  /\ file_exists' = r.file_exists
            /\ call' = [NoCall EXCEPT !.op = "migrate_json_config_if_required",
                                      !.attempted = r.attempted,
                                      !.pre_file = file_exists,
                                      !.pre_prefs = plugin_prefs,
                                      !.pre_db = db_prefs,
                                      !.pre_table = preferences,
                                      !.mutated = call.mutated]
            /\ UNCHANGED <<plugin_prefs, db_prefs, preferences, views_held,
                           default_library_values, gets, writes>>
            /\ UNCHANGED dialogVars

\* get_library_config(db) for the library db.  JSONConfig commits every
\* change of plugin_prefs to its file, which then exists.
GetLibraryConfig(library_id) ==
    /\ gets[library_id] < MaxGets
    /\ LET r == get_library_config(plugin_prefs, db_prefs, library_id)
       IN  /\ plugin_prefs' = r.prefs
           /\ db_prefs' = r.db
           /\ preferences' = IF r.wrote THEN written(preferences, r.db, library_id)
                              ELSE preferences
           /\ file_exists' = (file_exists \/ r.from_legacy)
           /\ call' = [op |-> "get_library_config", lib |-> library_id,
                       config |-> r.config, loaded |-> r.loaded,
                       wrote |-> r.wrote, from_legacy |-> r.from_legacy,
                       attempted |-> FALSE, pre_file |-> file_exists,
                       pre_prefs |-> plugin_prefs, pre_db |-> db_prefs,
                       pre_table |-> preferences,
                       pre_gets |-> gets[library_id],
                       pre_writes |-> writes[library_id],
                       shares_defaults |-> r.shares_defaults,
                       held |-> r.held,
                       mutated |-> call.mutated]
           /\ default_library_values' = r.defaults
           /\ gets' = [gets EXCEPT ![library_id] = @ + 1]
           /\ writes' = [writes EXCEPT ![library_id] = @ + (IF r.wrote THEN 1 ELSE 0)]
           /\ UNCHANGED views_held
           /\ UNCHANGED dialogVars

\* The caller changes the record get_library_config returned, in place, as
\* ConfigWidget does: self.views is the record's views dict (line 346) and
\* add_view puts a view into it (line 572).  Nothing is saved: the
\* preferences table keeps what was written, but the record db.prefs holds
\* is this object (unless it is a legacy entry that was not written, which
\* db.prefs never got), so the next get_library_config returns the change.
MutateConfig ==
    /\ call.op = "get_library_config"
    /\ LET changed == [call.config EXCEPT
                           !.views = DictSet(@, "new", StoredViewB)]
           \* the record was made from the defaults
           from_defaults == ~call.from_legacy /\ call.lib \notin DOMAIN call.pre_db
       IN  /\ call' = [call EXCEPT !.op = "mutate", !.config = changed,
                                   !.mutated = @ \/ from_defaults]
           /\ db_prefs' = IF call.held THEN DictSet(db_prefs, call.lib, changed)
                           ELSE db_prefs
           /\ default_library_values' =
                  IF call.shares_defaults THEN changed ELSE default_library_values
    /\ UNCHANGED <<file_exists, plugin_prefs, preferences, views_held, gets, writes>>
    /\ UNCHANGED dialogVars

NextStore ==
    \/ MutateConfig
    \/ MigrateJsonConfigIfRequired
    \/ \E library_id \in Libraries : GetLibraryConfig(library_id)

SpecStore == InitStore /\ [][NextStore]_vars

-----------------------------------------------------------------------------
(* Properties of the store operations (checked under SpecStore) *)

Version(record) == DictGet(record, KEY_SCHEMA_VERSION, 0)

IsGet == call.op = "get_library_config"
IsMigrateJson == call.op = "migrate_json_config_if_required"

\* The library's database record is the same before and after the call,
\* in db.prefs and in the preferences table.
SameDatabaseRecord(library_id) ==
    /\ (library_id \in DOMAIN db_prefs) <=> (library_id \in DOMAIN call.pre_db)
    /\ library_id \in DOMAIN db_prefs => db_prefs[library_id] = call.pre_db[library_id]
    /\ (library_id \in DOMAIN preferences) <=> (library_id \in DOMAIN call.pre_table)
    /\ library_id \in DOMAIN preferences =>
           preferences[library_id] = call.pre_table[library_id]

\* C6 as stated: with no legacy file, with no legacy entry for the library,
\* or when the library was migrated by an earlier call, the two migration
\* functions change neither the legacy store nor the library's database
\* record.
C6_Original ==
    /\ (IsGet /\ (~call.pre_file \/ ~call.from_legacy \/ call.pre_gets > 0)) =>
            /\ plugin_prefs = call.pre_prefs
            /\ SameDatabaseRecord(call.lib)
    /\ IsMigrateJson =>
           /\ plugin_prefs = call.pre_prefs
           /\ db_prefs = call.pre_db
           /\ preferences = call.pre_table

\* C6 as amended: in those three cases there is no legacy entry to move and
\* get_library_config leaves the legacy store and its file alone; it
\* changes the database only when the record it read (the defaults for a
\* missing one) is not at the current schema version, and then only by
\* writing that record back with SchemaVersion set; with the record at the
\* current version it writes nothing.  migrate_json_config_if_required
\* changes the contents of neither store, and nothing without a legacy file.
C6_MigrationIdempotent ==
    /\ (IsGet /\ (~call.pre_file \/ ~call.from_legacy \/ call.pre_gets > 0)) =>
            /\ ~call.from_legacy
            /\ plugin_prefs = call.pre_prefs
            /\ file_exists = call.pre_file
            /\ call.loaded = DictGet(call.pre_db, call.lib, DEFAULT_LIBRARY_VALUES)
            /\ IF Version(call.loaded) = DEFAULT_SCHEMA_VERSION
               THEN /\ ~call.wrote
                    /\ db_prefs = call.pre_db
                    /\ preferences = call.pre_table
               ELSE /\ db_prefs = DictSet(call.pre_db, call.lib,
                               WithSchema(call.loaded, DEFAULT_SCHEMA_VERSION))
                    /\ preferences = DictSet(call.pre_table, call.lib,
                               WithSchema(call.loaded, DEFAULT_SCHEMA_VERSION))
    /\ IsMigrateJson =>
            /\ plugin_prefs = call.pre_prefs
            /\ db_prefs = call.pre_db
            /\ preferences = call.pre_table
            /\ ~call.pre_file => ~file_exists

\* C6 witness: a second get_library_config on a library, its record being
\* at the current version, has run and left both stores as they were.
C6_Witness ==
    /\ IsGet /\ call.pre_gets > 0
    /\ call.lib \in DOMAIN db_prefs
    /\ db_prefs = call.pre_db /\ plugin_prefs = call.pre_prefs
    /\ preferences = call.pre_table

\* C7: get_library_config writes the record back, with SchemaVersion set to
\* the current version, exactly when the version of the record it read
\* differs from it; no library's record is written back twice, and after a
\* write-back every later get_library_config on that library reads a record
\* at the current version and writes nothing.
C7_SchemaMigrationOnce ==
    /\ \A l \in Libraries : writes[l] <= 1
    /\ IsGet =>
        /\ call.wrote <=> (Version(call.loaded) # DEFAULT_SCHEMA_VERSION)
        /\ call.wrote =>
            /\ call.lib \in DOMAIN db_prefs
            /\ db_prefs[call.lib] = WithSchema(call.loaded, DEFAULT_SCHEMA_VERSION)
            /\ call.config = db_prefs[call.lib]
            /\ call.lib \in DOMAIN preferences
            /\ preferences[call.lib] = call.config
        /\ ~call.wrote => (db_prefs = call.pre_db /\ preferences = call.pre_table)
        /\ call.pre_writes > 0 =>
            (~call.wrote /\ Version(call.loaded) = DEFAULT_SCHEMA_VERSION)

\* C7 witness: a get_library_config that follows a write-back of the same
\* library's record.
C7_Witness == IsGet /\ call.pre_writes = 1 /\ ~call.wrote

\* C8: the legacy file goes away only when the store has no 'libraries' key:
\* migrate_json_config_if_required attempts the removal exactly when the
\* file exists and the key is absent, changes nothing else, and a failed
\* removal leaves everything as it was; get_library_config never removes
\* the file; so a missing file always goes with a store without the key.
C8_LegacyFileRemoval ==
    /\ ~file_exists => STORE_LIBRARIES \notin DOMAIN plugin_prefs
    /\ IsMigrateJson =>
        /\ call.attempted <=>
              (call.pre_file /\ STORE_LIBRARIES \notin DOMAIN call.pre_prefs)
        /\ ~call.attempted => file_exists = call.pre_file
        /\ file_exists => call.pre_file
        /\ plugin_prefs = call.pre_prefs
        /\ db_prefs = call.pre_db
        /\ preferences = call.pre_table
    /\ IsGet => (call.pre_file => file_exists)

\* C8 witness: the removal was attempted and the file is gone.
C8_Witness == IsMigrateJson /\ call.attempted /\ call.pre_file /\ ~file_exists

\* C9 as stated: a get_library_config that finds the library in the legacy
\* store removes the entry (and the 'libraries' key with the last one),
\* returns the entry and leaves the same record in the library's database
\* preferences, whatever the entry holds.
C9_NoConfigLost ==
    (IsGet /\ call.from_legacy) =>
        LET before == call.pre_prefs[STORE_LIBRARIES]
            entry == before[call.lib]
        IN  /\ IF DOMAIN before = {call.lib}
               THEN STORE_LIBRARIES \notin DOMAIN plugin_prefs
               ELSE /\ STORE_LIBRARIES \in DOMAIN plugin_prefs
                    /\ plugin_prefs[STORE_LIBRARIES] = DictDel(before, call.lib)
            /\ \A k \in DOMAIN entry \ {KEY_SCHEMA_VERSION} :
                    k \in DOMAIN call.config /\ call.config[k] = entry[k]
            /\ call.lib \in DOMAIN db_prefs
            /\ db_prefs[call.lib] = call.config
            /\ call.lib \in DOMAIN preferences
            /\ preferences[call.lib] = call.config

\* C12: a get_library_config for a library with no legacy entry and no
\* database record returns views empty, lastView '', autoApplyView False,
\* viewToApply '*Last View Used' and the current schema version, and stores
\* that record in the library's database preferences; the record shares
\* nothing with DEFAULT_LIBRARY_VALUES, which stay as they were defined
\* whatever a caller does to a record it got.
C12_DefaultsOnFirstAccess ==
    /\ default_library_values =
           [views |-> EmptyDict, lastView |-> "", autoApplyView |-> FALSE,
            viewToApply |-> "*Last View Used"]
    /\ (IsGet /\ ~call.from_legacy /\ call.lib \notin DOMAIN call.pre_db) =>
           /\ call.config =
                  [views |-> EmptyDict, lastView |-> "", autoApplyView |-> FALSE,
                   viewToApply |-> "*Last View Used",
                   SchemaVersion |-> DEFAULT_SCHEMA_VERSION]
           /\ call.lib \in DOMAIN db_prefs
           /\ db_prefs[call.lib] = call.config
           /\ call.lib \in DOMAIN preferences
           /\ preferences[call.lib] = call.config
           /\ ~call.shares_defaults

\* C12 witness: the first get_library_config for a library without any
\* record, after the caller of an earlier one changed the record it got for
\* another library from the defaults.
C12_Witness ==
    /\ IsGet /\ ~call.from_legacy /\ call.lib \notin DOMAIN call.pre_db
    /\ call.pre_gets = 0
    /\ call.mutated

-----------------------------------------------------------------------------
(* Python strings, over the strings the model uses *)

\* unicode.strip(): ' A' is the model's one string with surrounding whitespace.
strip(s) == IF s = " A" THEN "A" ELSE s

\* unicode.lower()
lower(s) ==
    CASE s = "A" -> "a"
      [] s = " A" -> " a"
      [] s = "*Last View Used" -> "*last view used"
      [] OTHER -> s

\* The position of a string in Python's (code point) order of unicode strings.
CodePointRank(s) ==
    CASE s = "" -> 0
      [] s = " A" -> 1
      [] s = "*Last View Used" -> 2
      [] s = "A" -> 3
      [] s = "a" -> 4
      [] s = "b" -> 5
      [] OTHER -> 6

\* The truth value of a name: None and '' are false.
Truthy(s) == s # None /\ s # ""

\* sorted(views.keys()): the i-th name has i - 1 names before it
sorted(S) ==
    [i \in 1..Cardinality(S) |->
        CHOOSE x \in S :
            Cardinality({y \in S : CodePointRank(y) < CodePointRank(x)}) = i - 1]

\* list.remove(x): the list without the first x
Remove(list, x) ==
    LET at == CHOOSE i \in DOMAIN list :
                  list[i] = x /\ \A j \in 1..(i - 1) : list[j] # x
    IN  SubSeq(list, 1, at - 1) \o SubSeq(list, at + 1, Len(list))

InList(list, x) == \E i \in DOMAIN list : list[i] = x

\* dict(pairs): a later pair wins over an earlier one with the same key
dict(pairs) ==
    [k \in {pairs[i][1] : i \in DOMAIN pairs} |->
        LET at == CHOOSE i \in DOMAIN pairs :
                      pairs[i][1] = k /\ \A j \in (i + 1)..Len(pairs) : pairs[j][1] # k
        IN  pairs[at][2]]

-----------------------------------------------------------------------------
(* The host: the library view's columns and the saved searches *)

\* gui.library_view.model().column_map
column_map == <<"authors", "ondevice", "title">>

\* gui.library_view.get_state()
column_positions == [ondevice |-> 0, title |-> 1, authors |-> 2]
hidden_columns == {"authors", "ondevice"}
column_sizes == [title |-> 10, authors |-> 20]

\* saved_searches().names(), in the order of sort_key
saved_search_names == <<"s">>

\* ConfigWidget.get_current_columns (defaults=False)
get_current_columns(visible_only) ==
    LET \* colmap.sort(cmp=lambda x,y: cmp(positions[x], positions[y]))
        colmap == [i \in DOMAIN column_map |->
                      CHOOSE col \in {column_map[j] : j \in DOMAIN column_map} :
                          Cardinality({j \in DOMAIN column_map :
                              column_positions[column_map[j]] < column_positions[col]})
                          = i - 1]
        shown == IF visible_only
                 THEN SelectSeq(colmap,
                          LAMBDA col : col \notin hidden_columns \/ col = "ondevice")
                 ELSE colmap
    IN  [i \in DOMAIN shown |->
            IF shown[i] \in hidden_columns
            THEN <<shown[i], -1>>
            ELSE <<shown[i], DictGet(column_sizes, shown[i], -1)>>]

\* self.all_columns, set when the dialog is constructed
all_columns == get_current_columns(FALSE)

-----------------------------------------------------------------------------
(* ViewComboBox and SearchComboBox *)

\* QComboBox.findText: the index of the first item equal to text, or -1
findText(items, text) ==
    IF InList(items, text)
    THEN (CHOOSE i \in DOMAIN items :
              items[i] = text /\ \A j \in 1..(i - 1) : items[j] # text) - 1
    ELSE -1

\* QComboBox.currentText
currentText(combo) == IF combo.idx = -1 THEN "" ELSE combo.items[combo.idx + 1]

\* A variant of ViewComboBox.select_view that looks the text up whatever it is.
select_view_always_find(combo, selected_text) ==
    [combo EXCEPT !.idx = findText(combo.items, selected_text)]

\* ViewComboBox.select_view
select_view(combo, selected_text) ==
    IF Truthy(selected_text)
    THEN [combo EXCEPT !.idx = findText(combo.items, selected_text)]
    ELSE IF Len(combo.items) > 0
         THEN [combo EXCEPT !.idx = 0]
         ELSE combo

\* ViewComboBox.populate_combo: a combo box that gets its first item makes
\* it the current one.
populate_combo(special, view_dict, selected_text) ==
    LET items == (IF special THEN <<LAST_VIEW_ITEM>> ELSE << >>)
                    \o sorted(DOMAIN view_dict)
    IN  select_view([items |-> items, idx |-> IF Len(items) > 0 THEN 0 ELSE -1],
                    selected_text)

\* SearchComboBox.populate_combo: the items
search_items == <<"">> \o saved_search_names

\* SearchComboBox.select_value: the new current index
select_value(idx, search) ==
    IF Truthy(search) THEN findText(search_items, search)
    ELSE IF Len(search_items) > 0 THEN 0 ELSE idx

\* SearchComboBox.currentText
search_text(idx) == IF idx = -1 THEN "" ELSE search_items[idx + 1]

-----------------------------------------------------------------------------
(* ColumnListWidget and SortColumnListWidget *)

\* The first loop of populate (lines 209-212, 280-283): the saved pairs whose
\* column is still in the list names, in saved order, each column taken out
\* of names when it is found; rest is what is left of names.
RECURSIVE populate_saved(_, _)
populate_saved(columns, names) ==
    IF columns = << >>
    THEN [found |-> << >>, rest |-> names]
    ELSE LET pair == Head(columns)
         IN  IF InList(names, pair[1])
             THEN LET r == populate_saved(Tail(columns), Remove(names, pair[1]))
                  IN  [found |-> <<pair>> \o r.found, rest |-> r.rest]
             ELSE populate_saved(Tail(columns), names)

\* ColumnListWidget.populate_column: 'ondevice' gets no check box and no
\* check state, which reads as unchecked.
ColumnListWidget_populate_column(colname, is_checked) ==
    [col |-> colname, checked |-> (colname # "ondevice") /\ is_checked]

\* A variant of ColumnListWidget.populate without the test of line 210: every
\* saved column gets an item.
ColumnListWidget_populate_keep_missing(columns, all_cols) ==
    LET names == [i \in DOMAIN all_cols |-> all_cols[i][1]]
        rest == SelectSeq(names,
                    LAMBDA n : ~\E i \in DOMAIN columns : columns[i][1] = n)
    IN  [items |->
            [i \in DOMAIN columns |->
                ColumnListWidget_populate_column(columns[i][1], TRUE)]
            \o [i \in DOMAIN rest |->
                ColumnListWidget_populate_column(rest[i], FALSE)],
         row |-> -1,
         saved_column_widths |-> dict(columns),
         all_columns_with_widths |-> all_cols]

\* ColumnListWidget.populate
ColumnListWidget_populate(columns, all_cols) ==
    LET names == [i \in DOMAIN all_cols |-> all_cols[i][1]]
        r == populate_saved(columns, names)
    IN  [items |->
            [i \in DOMAIN r.found |->
                ColumnListWidget_populate_column(r.found[i][1], TRUE)]
            \o [i \in DOMAIN r.rest |->
                ColumnListWidget_populate_column(r.rest[i], FALSE)],
         row |-> -1,
         saved_column_widths |-> dict(columns),
         all_columns_with_widths |-> all_cols]

\* The width get_data looks up in all_columns_with_widths (lines 234-238)
use_width(all_cols, data) ==
    IF \E i \in DOMAIN all_cols : all_cols[i][1] = data
    THEN all_cols[CHOOSE i \in DOMAIN all_cols :
                      all_cols[i][1] = data
                      /\ \A j \in 1..(i - 1) : all_cols[j][1] # data][2]
    ELSE -1

\* ColumnListWidget.get_data
ColumnListWidget_get_data(list) ==
    LET kept == SelectSeq(list.items,
                    LAMBDA item : item.checked \/ strip(item.col) = "ondevice")
    IN  [i \in DOMAIN kept |->
            <<strip(kept[i].col),
              DictGet(list.saved_column_widths, strip(kept[i].col),
                      use_width(list.all_columns_with_widths, strip(kept[i].col)))>>]

\* QListWidget.takeItem(idx) then insertItem(to, item), for a row idx of the list
move_item(items, idx, to) ==
    LET item == items[idx + 1]
        without == SubSeq(items, 1, idx) \o SubSeq(items, idx + 2, Len(items))
    IN  SubSeq(without, 1, to) \o <<item>> \o SubSeq(without, to + 1, Len(without))

\* A variant of move_column_up that leaves the current row where it was.
move_column_up_row_stays(list) ==
    LET idx == list.row
    IN  IF idx > 0
        THEN [list EXCEPT !.items = move_item(list.items, idx, idx - 1)]
        ELSE list

\* ColumnListWidget.move_column_up
move_column_up(list) ==
    LET idx == list.row
    IN  IF idx > 0
        THEN [list EXCEPT !.items = move_item(list.items, idx, idx - 1),
                          !.row = idx - 1]
        ELSE list

\* ColumnListWidget.move_column_down.  With no current row (idx = -1) and a
\* list that is not empty the condition holds: takeItem(-1) gives no item,
\* insertItem of no item inserts nothing, and setCurrentRow(0) runs.
move_column_down(list) ==
    LET idx == list.row
    IN  IF idx < Len(list.items) - 1
        THEN IF idx = -1
             THEN [list EXCEPT !.row = 0]
             ELSE [list EXCEPT !.items = move_item(list.items, idx, idx + 1),
                               !.row = idx + 1]
        ELSE list

\* SortColumnListWidget.item_selection_changed
item_selection_changed(list) ==
    LET on == list.row # -1 /\ list.items[list.row + 1].checked
    IN  [list EXCEPT !.asc_enabled = on, !.desc_enabled = on]

\* SortColumnListWidget.populate_column: the new item (its data is col|asc)
SortColumnListWidget_populate_column(colname, asc, is_checked) ==
    [col |-> colname, asc |-> asc, checked |-> is_checked]

\* SortColumnListWidget.populate: clear() runs with the signals blocked, so
\* item_selection_changed runs only from set_sort_icon, once per item added.
SortColumnListWidget_populate(list, columns, all_cols) ==
    LET names == [i \in DOMAIN all_cols |-> all_cols[i][1]]
        r == populate_saved(columns, names)
        items == [i \in DOMAIN r.found |->
                     SortColumnListWidget_populate_column(r.found[i][1], r.found[i][2], TRUE)]
                 \o [i \in DOMAIN r.rest |->
                     SortColumnListWidget_populate_column(r.rest[i], 0, FALSE)]
        filled == [list EXCEPT !.items = items, !.row = -1]
    IN  IF Len(items) > 0 THEN item_selection_changed(filled) ELSE filled

\* SortColumnListWidget.change_sort
change_sort(list, asc) ==
    IF list.row # -1
    THEN item_selection_changed([list EXCEPT !.items[list.row + 1].asc = asc])
    ELSE list

\* SortColumnListWidget.get_data
SortColumnListWidget_get_data(list) ==
    LET kept == SelectSeq(list.items, LAMBDA item : item.checked)
    IN  [i \in DOMAIN kept |-> <<strip(kept[i].col), kept[i].asc>>]

-----------------------------------------------------------------------------
(* ConfigWidget: persist_view_config and select_view_combo_index_changed *)

\* A variant of persist_view_config that stores the two names whatever the
\* flags are.
persist_view_config_keeps_names ==
    IF ~Truthy(view_name)
    THEN views
    ELSE [views EXCEPT ![view_name] =
            [@ EXCEPT
                !.columns = ColumnListWidget_get_data(columns_list),
                !.sort = SortColumnListWidget_get_data(sort_list),
                !.applyRestriction = apply_restriction_checkbox,
                !.restrictionToApply = strip(search_text(search_restriction_combo)),
                !.applySearch = apply_search_checkbox,
                !.searchToApply = strip(search_text(saved_search_combo))]]

\* persist_view_config: self.views after the call
persist_view_config ==
    IF ~Truthy(view_name)
    THEN views
    ELSE [views EXCEPT ![view_name] =
            [@ EXCEPT
                !.columns = ColumnListWidget_get_data(columns_list),
                !.sort = SortColumnListWidget_get_data(sort_list),
                !.applyRestriction = apply_restriction_checkbox,
                !.restrictionToApply =
                    IF apply_restriction_checkbox
                    THEN strip(search_text(search_restriction_combo))
                    ELSE "",
                !.applySearch = apply_search_checkbox,
                !.searchToApply =
                    IF apply_search_checkbox
                    THEN strip(search_text(saved_search_combo))
                    ELSE ""]]

\* The form widgets persist_view_config reads
form_read ==
    [columns_list |-> columns_list,
     sort_list |-> sort_list,
     apply_restriction_checkbox |-> apply_restriction_checkbox,
     search_restriction_combo |-> search_restriction_combo,
     apply_search_checkbox |-> apply_search_checkbox,
     saved_search_combo |-> saved_search_combo]

\* History of persist_view_config: the form it read for self.view_name
persist_view_form ==
    IF ~Truthy(view_name)
    THEN persisted_form
    ELSE DictSet(persisted_form, view_name, form_read)

\* History of the select-view combo box: the form as it is when the item
\* selected there is left for another one
leave_form ==
    IF select_view_combo.idx < 0
    THEN left_form
    ELSE DictSet(left_form, currentText(select_view_combo), form_read)

\* select_view_combo_index_changed from line 513 on (the caller persists the
\* previous view first when save_previous is set): the new self.view_name
\* and the form widgets, for self.views = view_dict, the select-view combo
\* box combo, and the widgets as they are before the call.
select_view_combo_index_changed(view_dict, combo, old_sort_list, old_restriction_idx, old_search_idx) ==
    LET name == IF Len(combo.items) = 0 THEN None
                ELSE strip(currentText(combo))
        shown == Truthy(name)
        view_info == view_dict[name]
        columns == IF shown THEN view_info.columns ELSE << >>
        sort_columns == IF shown THEN view_info.sort ELSE << >>
        all_cols == IF shown THEN all_columns ELSE << >>
        apply_restriction == IF shown THEN view_info.applyRestriction ELSE FALSE
        restriction_to_apply == IF shown THEN view_info.restrictionToApply ELSE ""
        apply_search == IF shown THEN view_info.applySearch ELSE FALSE
        search_to_apply == IF shown THEN view_info.searchToApply ELSE ""
    IN  [view_name |-> name,
         columns_list |-> ColumnListWidget_populate(columns, all_cols),
         sort_list |-> SortColumnListWidget_populate(old_sort_list, sort_columns, all_cols),
         apply_restriction_checkbox |-> apply_restriction,
         search_restriction_combo |-> select_value(old_restriction_idx, restriction_to_apply),
         apply_search_checkbox |-> apply_search,
         saved_search_combo |-> select_value(old_search_idx, search_to_apply)]

\* A handler calls select_view_combo_index_changed(save_previous=False),
\* self.views being view_dict and the select-view combo box combo: the form
\* and self.view_name become what it computes.
ShowView(view_dict, combo) ==
    \E shown \in {select_view_combo_index_changed(view_dict, combo, sort_list,
                      search_restriction_combo, saved_search_combo)} :
    /\ view_name' = shown.view_name
    /\ columns_list' = shown.columns_list
    /\ sort_list' = shown.sort_list
    /\ apply_restriction_checkbox' = shown.apply_restriction_checkbox
    /\ search_restriction_combo' = shown.search_restriction_combo
    /\ apply_search_checkbox' = shown.apply_search_checkbox
    /\ saved_search_combo' = shown.saved_search_combo

-----------------------------------------------------------------------------
(* ConfigWidget: construction *)

\* The library whose configuration dialog is open (gui.current_db)
DialogLibrary == "L1"

RecordAB ==
    LibraryRecord([n \in {"a", "b"} |-> IF n = "a" THEN StoredViewA ELSE StoredViewB],
                  "b", TRUE, "a")

\* The stores the dialog may be opened on: nothing stored yet; a record
\* with two views; a legacy entry with one view that was never migrated.
DialogStores ==
    {[file |-> FALSE, prefs |-> EmptyDict, db |-> EmptyDict],
     [file |-> FALSE, prefs |-> EmptyDict,
      db |-> [l \in {DialogLibrary} |-> WithSchema(RecordAB, DEFAULT_SCHEMA_VERSION)]],
     [file |-> TRUE,
      prefs |-> [k \in {STORE_LIBRARIES} |-> [l \in {DialogLibrary} |-> RecordA]],
      db |-> EmptyDict]}

NoOperation == [op |-> "none", result |-> "none", text |-> None]

\* User actions in one run of the dialog
MaxSteps == 3

\* ConfigWidget.__init__ (lines 341-475), opened on the stores store
InitDialogOn(store) ==
    LET r == get_library_config(store.prefs, store.db, DialogLibrary)
        library == r.config
        view_dict == library[KEY_VIEWS]
        combo == populate_combo(FALSE, view_dict, None)
        auto == select_view(populate_combo(TRUE, view_dict, None),
                            DictGet(library, KEY_VIEW_TO_APPLY, LAST_VIEW_ITEM))
        selected == IF KEY_LAST_VIEW \in DOMAIN library
                       /\ library[KEY_LAST_VIEW] \in DOMAIN view_dict
                    THEN select_view(combo, library[KEY_LAST_VIEW])
                    ELSE combo
        new_sort_list == [items |-> << >>, row |-> -1,
                          asc_enabled |-> TRUE, desc_enabled |-> TRUE]
        shown == select_view_combo_index_changed(view_dict, selected, new_sort_list, 0, 0)
    IN  /\ default_library_values = DEFAULT_LIBRARY_VALUES
        /\ file_exists = (store.file \/ r.from_legacy)
        /\ plugin_prefs = r.prefs
        /\ db_prefs = r.db
        /\ preferences = (IF r.wrote THEN written(store.db, r.db, DialogLibrary)
                          ELSE store.db)
        /\ views_held = r.held
        /\ call = NoCall
        /\ gets = [l \in Libraries |-> 0]
        /\ writes = [l \in Libraries |-> 0]
        /\ views = view_dict
        /\ view_name = shown.view_name
        /\ select_view_combo = selected
        /\ auto_view_combo = auto
        /\ columns_list = shown.columns_list
        /\ sort_list = shown.sort_list
        /\ apply_restriction_checkbox = shown.apply_restriction_checkbox
        /\ search_restriction_combo = shown.search_restriction_combo
        /\ apply_search_checkbox = shown.apply_search_checkbox
        /\ saved_search_combo = shown.saved_search_combo
        /\ auto_apply_checkbox = DictGet(library, KEY_AUTO_APPLY_VIEW, FALSE)
        /\ last = NoOperation
        /\ persisted_form = EmptyDict
        /\ left_form = EmptyDict

InitDialog ==
    /\ \E store \in DialogStores : InitDialogOn(store)
    /\ steps = MaxSteps

-----------------------------------------------------------------------------
(* ConfigWidget: the handlers of the view buttons *)

\* What the user may type into the name prompt of add_view and rename_view
InputNames == {"a", " A", "b", "", LAST_VIEW_ITEM}

\* What QInputDialog.getText may return: the text typed and True, or the
\* empty text and False when the prompt is cancelled.
PromptResults == {<<text, TRUE>> : text \in InputNames} \cup {<<"", FALSE>>}

\* A user action took place: one fewer is left.
Outcome(op, result, text) ==
    /\ steps > 0
    /\ last' = [op |-> op, result |-> result, text |-> text]
    /\ steps' = steps - 1

\* db.prefs after self.views was changed in place into view_dict: self.views
\* is the views dict of self.library (line 346), the record db.prefs holds.
in_place(view_dict) ==
    IF views_held
    THEN [db_prefs EXCEPT ![DialogLibrary] = DictSet(@, KEY_VIEWS, view_dict)]
    ELSE db_prefs

\* A handler changed self.views into view_dict and wrote nothing.
InPlace(view_dict) ==
    /\ db_prefs' = in_place(view_dict)
    /\ UNCHANGED <<file_exists, plugin_prefs, preferences, views_held,
                   default_library_values, call, gets, writes>>

\* A variant of add_view_clash that compares the names as they are written.
add_view_clash_case_sensitive(new_view_name) ==
    new_view_name \in DOMAIN views

\* A variant of rename_view_clash that compares the names as they are written.
rename_view_clash_case_sensitive(old_view_name, new_view_name) ==
    new_view_name \in (DOMAIN views) \ {old_view_name}

\* The loop of lines 550-552: some view's name equals new_view_name, letter
\* case aside.
add_view_clash(new_view_name) ==
    \E name \in DOMAIN views : lower(name) = lower(new_view_name)

\* The loop of lines 592-596: the same, the renamed view left out.
rename_view_clash(old_view_name, new_view_name) ==
    \E name \in DOMAIN views :
        name # old_view_name /\ lower(name) = lower(new_view_name)

\* Lines 555-569: the definition of the view add_view creates, self.views
\* being view_dict after persist_view_config.
new_view_info(view_dict) ==
    LET blank == View(<< >>, << >>, FALSE, "", FALSE, "")
    IN  IF Truthy(view_name)
        THEN LET old_view_info == view_dict[view_name]
             IN  [blank EXCEPT
                    !.columns = old_view_info.columns,
                    !.sort = old_view_info.sort,
                    !.applyRestriction = old_view_info.applyRestriction,
                    !.restrictionToApply = old_view_info.restrictionToApply,
                    !.applySearch = old_view_info.applySearch,
                    !.searchToApply = old_view_info.searchToApply]
        ELSE [blank EXCEPT !.columns = get_current_columns(TRUE)]

\* ConfigWidget.add_view: text and ok are what QInputDialog.getText returns.
AddView(text, ok) ==
    LET new_view_name == strip(text)
    IN  IF ~ok
        THEN Outcome("add_view", "cancelled", text)
             /\ UNCHANGED <<storeVars, views, view_name, select_view_combo,
                            auto_view_combo, formVars, auto_apply_checkbox,
                            persisted_form, left_form>>
        ELSE IF add_view_clash(new_view_name)
        THEN Outcome("add_view", "error", text)
             /\ UNCHANGED <<storeVars, views, view_name, select_view_combo,
                            auto_view_combo, formVars, auto_apply_checkbox,
                            persisted_form, left_form>>
        ELSE \E persisted \in {persist_view_config} :
             \E added \in {DictSet(persisted, new_view_name, new_view_info(persisted))} :
             \E combo \in {populate_combo(FALSE, added, new_view_name)} :
                 /\ views' = added
                 /\ select_view_combo' = combo
                 /\ ShowView(added, combo)
                 /\ auto_view_combo' =
                        populate_combo(TRUE, added, currentText(auto_view_combo))
                 /\ persisted_form' = persist_view_form
                 /\ left_form' = leave_form
                 /\ Outcome("add_view", "added", text)
                 /\ InPlace(added)
                 /\ UNCHANGED auto_apply_checkbox

\* ConfigWidget.rename_view
RenameView(text, ok) ==
    LET old_view_name == view_name
        new_view_name == strip(text)
    IN  IF ~Truthy(view_name) \/ ~ok \/ new_view_name = old_view_name
        THEN Outcome("rename_view",
                     IF ~Truthy(view_name) THEN "no view"
                     ELSE IF ~ok THEN "cancelled" ELSE "same name", text)
             /\ UNCHANGED <<storeVars, views, view_name, select_view_combo,
                            auto_view_combo, formVars, auto_apply_checkbox,
                            persisted_form, left_form>>
        ELSE IF rename_view_clash(old_view_name, new_view_name)
        THEN Outcome("rename_view", "error", text)
             /\ UNCHANGED <<storeVars, views, view_name, select_view_combo,
                            auto_view_combo, formVars, auto_apply_checkbox,
                            persisted_form, left_form>>
        ELSE \E persisted \in {persist_view_config} :
             \E renamed \in {DictSet(DictDel(persisted, old_view_name),
                                     new_view_name, persisted[old_view_name])} :
             \E combo \in {populate_combo(FALSE, renamed, new_view_name)} :
                 /\ views' = renamed
                 /\ select_view_combo' = combo
                 /\ ShowView(renamed, combo)
                 /\ auto_view_combo' =
                        IF currentText(auto_view_combo) = old_view_name
                        THEN populate_combo(TRUE, renamed, new_view_name)
                        ELSE populate_combo(TRUE, renamed, None)
                 /\ persisted_form' = DictDel(persisted_form, old_view_name)
                 /\ left_form' = DictDel(left_form, old_view_name)
                 /\ Outcome("rename_view", "renamed", text)
                 /\ InPlace(renamed)
                 /\ UNCHANGED auto_apply_checkbox

\* A variant of delete_view that ignores the answer to question_dialog.
delete_view_unconfirmed(confirm) ==
    IF ~Truthy(view_name)
    THEN Outcome("delete_view", "no view", view_name)
         /\ UNCHANGED <<storeVars, views, view_name, select_view_combo,
                        auto_view_combo, formVars, auto_apply_checkbox,
                        persisted_form, left_form>>
    ELSE \E remaining \in {DictDel(views, view_name)} :
         \E combo \in {populate_combo(FALSE, remaining, None)} :
             /\ views' = remaining
             /\ select_view_combo' = combo
             /\ ShowView(remaining, combo)
             /\ auto_view_combo' = populate_combo(TRUE, remaining, None)
             /\ persisted_form' = DictDel(persisted_form, view_name)
             /\ left_form' = DictDel(left_form, view_name)
             /\ Outcome("delete_view", IF confirm THEN "deleted" ELSE "declined",
                        view_name)
             /\ InPlace(remaining)
             /\ UNCHANGED auto_apply_checkbox

\* ConfigWidget.delete_view: confirm is the answer to question_dialog.
DeleteView(confirm) ==
    IF ~Truthy(view_name) \/ ~confirm
    THEN Outcome("delete_view",
                 IF ~Truthy(view_name) THEN "no view" ELSE "declined", view_name)
         /\ UNCHANGED <<storeVars, views, view_name, select_view_combo,
                        auto_view_combo, formVars, auto_apply_checkbox,
                        persisted_form, left_form>>
    ELSE \E remaining \in {DictDel(views, view_name)} :
         \E combo \in {populate_combo(FALSE, remaining, None)} :
             /\ views' = remaining
             /\ select_view_combo' = combo
             /\ ShowView(remaining, combo)
             /\ auto_view_combo' = populate_combo(TRUE, remaining, None)
             /\ persisted_form' = DictDel(persisted_form, view_name)
             /\ left_form' = DictDel(left_form, view_name)
             /\ Outcome("delete_view", "deleted", view_name)
             /\ InPlace(remaining)
             /\ UNCHANGED auto_apply_checkbox

\* The user picks another item of the select-view combo box:
\* currentIndexChanged runs select_view_combo_index_changed(save_previous=True).
SelectView(idx) ==
    /\ idx \in 0..(Len(select_view_combo.items) - 1)
    /\ idx # select_view_combo.idx
    /\ \E persisted \in {persist_view_config} :
       \E combo \in {[select_view_combo EXCEPT !.idx = idx]} :
           /\ views' = persisted
           /\ select_view_combo' = combo
           /\ ShowView(persisted, combo)
           /\ persisted_form' = persist_view_form
           /\ left_form' = leave_form
           /\ Outcome("select_view", "selected", currentText(combo))
           /\ InPlace(persisted)
           /\ UNCHANGED <<auto_view_combo, auto_apply_checkbox>>

\* A variant of save_settings that fills in a new record instead of the one
\* get_library_config returns.
save_settings_new_record ==
    \E persisted \in {persist_view_config} :
    LET library_config ==
            DictSet(DictSet(DictSet(DEFAULT_LIBRARY_VALUES,
                KEY_VIEWS, persisted),
                KEY_AUTO_APPLY_VIEW, auto_apply_checkbox),
                KEY_VIEW_TO_APPLY, currentText(auto_view_combo))
    IN  /\ views' = persisted
        /\ db_prefs' = set_library_config(in_place(persisted), DialogLibrary,
                                          library_config)
        /\ preferences' = written(preferences, db_prefs', DialogLibrary)
        /\ views_held' = TRUE
        /\ persisted_form' = persist_view_form
        /\ Outcome("save_settings", "saved", None)
        /\ UNCHANGED <<left_form, file_exists, plugin_prefs, default_library_values,
                       call, gets, writes, view_name, select_view_combo,
                       auto_view_combo, formVars, auto_apply_checkbox>>

\* ConfigWidget.save_settings: persist_view_config changes self.views in
\* place, get_library_config returns the record db.prefs holds (writing the
\* defaults first when there is none), the three keys are set in it and
\* set_library_config writes it; from then on self.views is its views dict.
SaveSettings ==
    \E persisted \in {persist_view_config} :
    \E r \in {get_library_config(plugin_prefs, in_place(persisted), DialogLibrary)} :
    LET library_config ==
            DictSet(DictSet(DictSet(r.config,
                KEY_VIEWS, persisted),
                KEY_AUTO_APPLY_VIEW, auto_apply_checkbox),
                KEY_VIEW_TO_APPLY, currentText(auto_view_combo))
    IN  /\ views' = persisted
        /\ plugin_prefs' = r.prefs
        /\ file_exists' = (file_exists \/ r.from_legacy)
        /\ db_prefs' = set_library_config(r.db, DialogLibrary, library_config)
        /\ preferences' = written(preferences, db_prefs', DialogLibrary)
        /\ views_held' = TRUE
        /\ persisted_form' = persist_view_form
        /\ Outcome("save_settings", "saved", None)
        /\ UNCHANGED <<left_form, default_library_values, call, gets, writes,
                       view_name, select_view_combo,
                       auto_view_combo, formVars, auto_apply_checkbox>>

-----------------------------------------------------------------------------
(* The user edits the form *)

Edited(what) ==
    /\ Outcome("edit", what, None)
    /\ UNCHANGED <<storeVars, views, view_name, select_view_combo, persisted_form, left_form>>

\* A click on the check box of row idx of the columns list ('ondevice' has none)
ToggleColumn(idx) ==
    /\ idx \in 0..(Len(columns_list.items) - 1)
    /\ columns_list.items[idx + 1].col # "ondevice"
    /\ columns_list' = [columns_list EXCEPT !.items[idx + 1].checked = ~@]
    /\ Edited("columns")
    /\ UNCHANGED <<sort_list, apply_restriction_checkbox, search_restriction_combo,
                   apply_search_checkbox, saved_search_combo, auto_view_combo,
                   auto_apply_checkbox>>

\* A click on row idx of the columns list
SelectColumnRow(idx) ==
    /\ idx \in 0..(Len(columns_list.items) - 1)
    /\ idx # columns_list.row
    /\ columns_list' = [columns_list EXCEPT !.row = idx]
    /\ Edited("columns")
    /\ UNCHANGED <<sort_list, apply_restriction_checkbox, search_restriction_combo,
                   apply_search_checkbox, saved_search_combo, auto_view_combo,
                   auto_apply_checkbox>>

\* move_column_up_button / move_column_down_button clicked
MoveColumn(up) ==
    /\ columns_list' = IF up THEN move_column_up(columns_list)
                       ELSE move_column_down(columns_list)
    /\ Edited("columns")
    /\ UNCHANGED <<sort_list, apply_restriction_checkbox, search_restriction_combo,
                   apply_search_checkbox, saved_search_combo, auto_view_combo,
                   auto_apply_checkbox>>

\* A click on the check box of row idx of the sort list: itemChanged runs
\* set_sort_icon, which runs item_selection_changed.
ToggleSort(idx) ==
    /\ idx \in 0..(Len(sort_list.items) - 1)
    /\ sort_list' = item_selection_changed(
                        [sort_list EXCEPT !.items[idx + 1].checked = ~@])
    /\ Edited("sort")
    /\ UNCHANGED <<columns_list, apply_restriction_checkbox, search_restriction_combo,
                   apply_search_checkbox, saved_search_combo, auto_view_combo,
                   auto_apply_checkbox>>

\* A click on row idx of the sort list: itemSelectionChanged runs
\* item_selection_changed.
SelectSortRow(idx) ==
    /\ idx \in 0..(Len(sort_list.items) - 1)
    /\ idx # sort_list.row
    /\ sort_list' = item_selection_changed([sort_list EXCEPT !.row = idx])
    /\ Edited("sort")
    /\ UNCHANGED <<columns_list, apply_restriction_checkbox, search_restriction_combo,
                   apply_search_checkbox, saved_search_combo, auto_view_combo,
                   auto_apply_checkbox>>

\* move_sort_up_button / move_sort_down_button clicked: setCurrentRow changes
\* the selection, which runs item_selection_changed.
MoveSort(up) ==
    /\ LET moved == IF up THEN move_column_up(sort_list)
                    ELSE move_column_down(sort_list)
       IN  sort_list' = IF moved = sort_list THEN sort_list
                        ELSE item_selection_changed(moved)
    /\ Edited("sort")
    /\ UNCHANGED <<columns_list, apply_restriction_checkbox, search_restriction_combo,
                   apply_search_checkbox, saved_search_combo, auto_view_combo,
                   auto_apply_checkbox>>

\* 'Sort ascending' (asc = 0) or 'Sort descending' (asc = 1) triggered
\* from the context menu; a disabled action cannot be triggered.
ChangeSort(asc) ==
    /\ IF asc = 0 THEN sort_list.asc_enabled ELSE sort_list.desc_enabled
    /\ sort_list' = change_sort(sort_list, asc)
    /\ Edited("sort")
    /\ UNCHANGED <<columns_list, apply_restriction_checkbox, search_restriction_combo,
                   apply_search_checkbox, saved_search_combo, auto_view_combo,
                   auto_apply_checkbox>>

ToggleApplyRestriction ==
    /\ apply_restriction_checkbox' = ~apply_restriction_checkbox
    /\ Edited("restriction")
    /\ UNCHANGED <<columns_list, sort_list, search_restriction_combo,
                   apply_search_checkbox, saved_search_combo, auto_view_combo,
                   auto_apply_checkbox>>

SelectRestriction(idx) ==
    /\ idx \in 0..(Len(search_items) - 1)
    /\ idx # search_restriction_combo
    /\ search_restriction_combo' = idx
    /\ Edited("restriction")
    /\ UNCHANGED <<columns_list, sort_list, apply_restriction_checkbox,
                   apply_search_checkbox, saved_search_combo, auto_view_combo,
                   auto_apply_checkbox>>

ToggleApplySearch ==
    /\ apply_search_checkbox' = ~apply_search_checkbox
    /\ Edited("search")
    /\ UNCHANGED <<columns_list, sort_list, apply_restriction_checkbox,
                   search_restriction_combo, saved_search_combo, auto_view_combo,
                   auto_apply_checkbox>>

SelectSearch(idx) ==
    /\ idx \in 0..(Len(search_items) - 1)
    /\ idx # saved_search_combo
    /\ saved_search_combo' = idx
    /\ Edited("search")
    /\ UNCHANGED <<columns_list, sort_list, apply_restriction_checkbox,
                   search_restriction_combo, apply_search_checkbox, auto_view_combo,
                   auto_apply_checkbox>>

ToggleAutoApply ==
    /\ auto_apply_checkbox' = ~auto_apply_checkbox
    /\ Edited("auto apply")
    /\ UNCHANGED <<formVars, auto_view_combo>>

\* The user picks another item of the auto-apply combo box
SelectAutoView(idx) ==
    /\ idx \in 0..(Len(auto_view_combo.items) - 1)
    /\ idx # auto_view_combo.idx
    /\ auto_view_combo' = [auto_view_combo EXCEPT !.idx = idx]
    /\ Edited("auto apply")
    /\ UNCHANGED <<formVars, auto_apply_checkbox>>

Rows == 0..(Len(all_columns) - 1)

EditForm ==
    \/ \E idx \in Rows : ToggleColumn(idx)
    \/ \E idx \in Rows : SelectColumnRow(idx)
    \/ \E up \in BOOLEAN : MoveColumn(up)
    \/ \E idx \in Rows : ToggleSort(idx)
    \/ \E idx \in Rows : SelectSortRow(idx)
    \/ \E up \in BOOLEAN : MoveSort(up)
    \/ \E asc \in {0, 1} : ChangeSort(asc)
    \/ ToggleApplyRestriction
    \/ \E idx \in 0..(Len(search_items) - 1) : SelectRestriction(idx)
    \/ ToggleApplySearch
    \/ \E idx \in 0..(Len(search_items) - 1) : SelectSearch(idx)

ManageViews ==
    \/ \E prompt \in PromptResults : AddView(prompt[1], prompt[2])
    \/ \E prompt \in PromptResults : RenameView(prompt[1], prompt[2])
    \/ \E confirm \in BOOLEAN : DeleteView(confirm)
    \/ \E idx \in 0..(Len(select_view_combo.items) - 1) : SelectView(idx)
    \/ \E idx \in 0..(Len(auto_view_combo.items) - 1) : SelectAutoView(idx)
    \/ ToggleAutoApply
    \/ SaveSettings

Next == EditForm \/ ManageViews

Spec == InitDialog /\ [][Next]_vars

-----------------------------------------------------------------------------
(* Properties of the dialog, checked under Spec *)

\* C1: the names of the views mapping stay pairwise distinct when
\* lower-cased, whatever add_view, rename_view, delete_view and the changes
\* of the selected view do.
C1_NamesUniqueIgnoringCase ==
    \A m \in DOMAIN views : \A n \in DOMAIN views :
        lower(m) = lower(n) => m = n

\* C1 witness: add_view has stored the view 'A', typed with a leading blank
\* and in upper case, next to another view.
C1_Witness ==
    /\ last.op = "add_view" /\ last.result = "added" /\ last.text = " A"
    /\ "A" \in DOMAIN views
    /\ Cardinality(DOMAIN views) >= 2

\* The name typed at the prompt is, blanks stripped, the name of a view in
\* the set names, letter case aside.
Collides(text, names) ==
    \E name \in names : lower(name) = lower(strip(text))

\* C2: an add_view whose prompt is accepted with a name that collides with
\* a view's name, and a rename_view of the edited view whose prompt is
\* accepted with a name that collides with another view's name, end in the
\* error dialog and leave the views mapping, the edited view's name and both
\* view combo boxes as they were.
C2_CollidingNameRejected ==
    [][ (\/ /\ last'.op = "add_view"
            /\ last'.result # "cancelled"
            /\ Collides(last'.text, DOMAIN views)
         \/ /\ last'.op = "rename_view"
            /\ last'.result \notin {"no view", "cancelled"}
            /\ Collides(last'.text, (DOMAIN views) \ {view_name}))
        => /\ last'.result = "error"
           /\ views' = views
           /\ view_name' = view_name
           /\ select_view_combo' = select_view_combo
           /\ auto_view_combo' = auto_view_combo ]_vars

\* C2 witness: rename_view was refused for the name ' A', which collides
\* with the view 'a' only once it is stripped and lower-cased.
C2_Witness ==
    /\ last.op = "rename_view" /\ last.result = "error" /\ last.text = " A"
    /\ "a" \in DOMAIN views /\ view_name # "a"

-----------------------------------------------------------------------------
(* The round trip of a view's form (checked under SpecRoundTrip): the user  *)
(* adds views, edits the form and switches between the views, in any order. *)

\* User actions in one run of the round trip
MaxRoundTripSteps == 4

InitRoundTrip ==
    /\ \E store \in DialogStores : InitDialogOn(store)
    /\ steps = MaxRoundTripSteps

NextRoundTrip ==
    \/ \E prompt \in PromptResults : AddView(prompt[1], prompt[2])
    \/ EditForm
    \/ \E idx \in 0..(Len(select_view_combo.items) - 1) : SelectView(idx)

SpecRoundTrip == InitRoundTrip /\ [][NextRoundTrip]_vars

\* An item of the select-view combo box that was left before has just been
\* selected again.
Reselected ==
    /\ last.op = "select_view"
    /\ select_view_combo.idx >= 0
    /\ currentText(select_view_combo) \in DOMAIN left_form

\* The columns a columns list selects: the checked ones and 'ondevice', in
\* the order of the list.
SelectedColumns(list) ==
    LET kept == SelectSeq(list.items,
                    LAMBDA item : item.checked \/ item.col = "ondevice")
    IN  [i \in DOMAIN kept |-> kept[i].col]

\* The sort a sort list selects: the checked columns with their directions,
\* in the order of the list.
SelectedSort(list) ==
    LET kept == SelectSeq(list.items, LAMBDA item : item.checked)
    IN  [i \in DOMAIN kept |-> <<kept[i].col, kept[i].asc>>]

\* The name a flag and its combo box select: the combo box's text when the
\* flag is checked, none otherwise.
SelectedName(flag, idx) == IF flag THEN search_text(idx) ELSE ""

\* C3 as stated, the selections of a form being what it selects for the
\* view: a view of the select-view combo box that was left for another one
\* and is selected again shows the selected columns (the checked ones and
\* 'ondevice') in the same order, the selected sort columns in the same
\* order with the same directions, the same apply-restriction and
\* apply-search flags and, for a checked flag, the same name, as the form
\* held them when the view was left.
C3_RoundTrip ==
    Reselected =>
        LET before == left_form[currentText(select_view_combo)]
        IN  /\ SelectedColumns(columns_list) = SelectedColumns(before.columns_list)
            /\ SelectedSort(sort_list) = SelectedSort(before.sort_list)
            /\ apply_restriction_checkbox = before.apply_restriction_checkbox
            /\ search_text(search_restriction_combo) =
                   SelectedName(before.apply_restriction_checkbox,
                                before.search_restriction_combo)
            /\ apply_search_checkbox = before.apply_search_checkbox
            /\ search_text(saved_search_combo) =
                   SelectedName(before.apply_search_checkbox,
                                before.saved_search_combo)

\* C4 as stated: after a confirmed delete_view of the edited view, its name
\* is no key of the views mapping and no item of the select-view combo box
\* or of the auto-apply combo box.
C4_DeleteRemovesView ==
    (last.op = "delete_view" /\ last.result = "deleted") =>
        /\ last.text \notin DOMAIN views
        /\ ~InList(select_view_combo.items, last.text)
        /\ ~InList(auto_view_combo.items, last.text)

\* C5 as stated: '*Last View Used' is never a key of the views mapping.
C5_SentinelNeverStored == LAST_VIEW_ITEM \notin DOMAIN views

\* The names of the host's columns
HostColumns == {all_columns[i][1] : i \in DOMAIN all_columns}

OnlyHostColumns(columns) ==
    \A i \in DOMAIN columns : columns[i][1] \in HostColumns

\* C10 as stated: in every state every view's stored column list has only
\* columns of the host.
C10_Original ==
    \A name \in DOMAIN views : OnlyHostColumns(views[name].columns)

\* C10, amended: the columns list of the form shows only columns of the
\* host, and every definition that a step of the dialog puts into the views
\* mapping or changes there has only columns of the host in its column
\* list; a definition the dialog has not written keeps the list it was
\* stored with.
C10_WrittenColumnsOfHost ==
    [][ /\ \A i \in DOMAIN columns_list.items :
               columns_list.items[i].col \in HostColumns
        /\ \A i \in DOMAIN columns_list'.items :
               columns_list'.items[i].col \in HostColumns
        /\ \A name \in DOMAIN views' :
               (name \notin DOMAIN views \/ views'[name] # views[name])
                   => OnlyHostColumns(views'[name].columns) ]_vars

\* C10 witness: the view 'a', stored with the column '#gone' that the host
\* does not have, has been persisted from the form and has lost it.
C10_Witness ==
    /\ "a" \in DOMAIN persisted_form
    /\ "a" \in DOMAIN views
    /\ ~OnlyHostColumns(StoredViewA.columns)
    /\ OnlyHostColumns(views["a"].columns)
    /\ views["a"].columns # << >>

\* The names of a stored column list or sort
Names(pairs) == [i \in DOMAIN pairs |-> pairs[i][1]]

\* The checked columns of a list, in the order of the list
CheckedColumns(list) ==
    LET kept == SelectSeq(list.items, LAMBDA item : item.checked)
    IN  [i \in DOMAIN kept |-> kept[i].col]

\* The stored pairs whose column the host has and that get a check box
Checkable(pairs) ==
    SelectSeq(pairs, LAMBDA pair : pair[1] \in HostColumns /\ pair[1] # "ondevice")

\* The definition entry holds what the form form selects.
Written(entry, form) ==
    /\ Names(entry.columns) = SelectedColumns(form.columns_list)
    /\ entry.sort = SelectedSort(form.sort_list)
    /\ entry.applyRestriction = form.apply_restriction_checkbox
    /\ entry.restrictionToApply =
           SelectedName(form.apply_restriction_checkbox, form.search_restriction_combo)
    /\ entry.applySearch = form.apply_search_checkbox
    /\ entry.searchToApply =
           SelectedName(form.apply_search_checkbox, form.saved_search_combo)

\* The form form shows the definition entry.
Shows(form, entry) ==
    /\ CheckedColumns(form.columns_list) = Names(Checkable(entry.columns))
    /\ SelectedSort(form.sort_list) =
           SelectSeq(entry.sort, LAMBDA pair : pair[1] \in HostColumns)
    /\ form.apply_restriction_checkbox = entry.applyRestriction
    /\ search_text(form.search_restriction_combo) = entry.restrictionToApply
    /\ form.apply_search_checkbox = entry.applySearch
    /\ search_text(form.saved_search_combo) = entry.searchToApply

\* The form shows the empty defaults.
Blank(form) ==
    /\ form.columns_list.items = << >>
    /\ form.sort_list.items = << >>
    /\ ~form.apply_restriction_checkbox
    /\ search_text(form.search_restriction_combo) = ""
    /\ ~form.apply_search_checkbox
    /\ search_text(form.saved_search_combo) = ""

\* C11 as stated: a change of the selected view from A to B writes what the
\* form selects into A's definition, changes no other definition, and leaves
\* the form showing B's definition as it is stored then; a form populated
\* while no view exists shows the empty defaults.
C11_SwitchPersistsThenPopulates ==
    [][ /\ last'.op = "select_view" =>
            /\ DOMAIN views' = DOMAIN views
            /\ \A name \in (DOMAIN views) \ {view_name} : views'[name] = views[name]
            /\ view_name \in DOMAIN views => Written(views'[view_name], form_read)
            /\ view_name' = last'.text
            /\ view_name' \in DOMAIN views'
            /\ Shows(form_read', views'[view_name'])
        /\ (last'.result = "deleted" /\ DOMAIN views' = {}) => Blank(form_read') ]_vars

\* C13: a delete_view that finds no edited view, or whose confirmation
\* question is declined, leaves the views mapping, the edited view's name
\* and both view combo boxes as they were; a delete_view changes them only
\* when a view is edited and the question was answered yes, and then that
\* view, and no other, leaves the mapping.
C13_DeleteNeedsConfirmation ==
    [][ last'.op = "delete_view" =>
            /\ last'.result = "no view" <=> ~Truthy(view_name)
            /\ last'.result \in {"no view", "declined", "deleted"}
            /\ last'.result # "deleted" =>
                   /\ views' = views
                   /\ view_name' = view_name
                   /\ select_view_combo' = select_view_combo
                   /\ auto_view_combo' = auto_view_combo
            /\ last'.result = "deleted" => views' = DictDel(views, view_name) ]_vars

\* C13 witness: the question was declined and the view is still there, edited.
C13_Witness ==
    /\ last.op = "delete_view" /\ last.result = "declined"
    /\ Truthy(view_name) /\ view_name \in DOMAIN views
    /\ currentText(select_view_combo) = view_name

\* The record save_settings wrote to the preferences table for the library
\* of the dialog
Stored == preferences[DialogLibrary]

\* db.prefs holds for that library what the preferences table holds.
StoredIsHeld ==
    /\ DialogLibrary \in DOMAIN preferences
    /\ DialogLibrary \in DOMAIN db_prefs
    /\ db_prefs[DialogLibrary] = Stored

\* C14: after save_settings the stored viewToApply is '*Last View Used' or
\* a key of the stored views mapping, whatever add_view, rename_view and
\* delete_view did before.
C14_ViewToApplyExists ==
    last.op = "save_settings" =>
        /\ StoredIsHeld
        /\ Stored[KEY_VIEWS] = views
        /\ Stored[KEY_VIEW_TO_APPLY] = currentText(auto_view_combo)
        /\ \/ Stored[KEY_VIEW_TO_APPLY] = "*Last View Used"
           \/ Stored[KEY_VIEW_TO_APPLY] \in DOMAIN Stored[KEY_VIEWS]

\* C14 witness: the view to apply was renamed to 'A' and the settings were
\* saved: the stored viewToApply is the new name.
C14_Witness ==
    /\ last.op = "save_settings"
    /\ StoredIsHeld
    /\ Stored[KEY_VIEW_TO_APPLY] = "A"
    /\ "A" \in DOMAIN Stored[KEY_VIEWS]

\* C15 as stated: after save_settings the views mapping in the library's
\* database preferences is the dialog's, and every view in it holds what
\* the form selected when the view was last edited: the form as it is for
\* the view selected in the select-view combo box, the form as it was when
\* the view was left for every other view the dialog has shown.
C15_NoEditLost ==
    last.op = "save_settings" =>
        /\ StoredIsHeld
        /\ Stored[KEY_VIEWS] = views
        /\ \A name \in DOMAIN views :
               IF name = strip(currentText(select_view_combo))
               THEN Written(Stored[KEY_VIEWS][name], form_read)
               ELSE name \in DOMAIN persisted_form
                        => Written(Stored[KEY_VIEWS][name], persisted_form[name])

\* C16 as stated: in every state the actions 'Sort ascending' and 'Sort
\* descending' of the sort list are enabled only when the list has a
\* current item and that item is checked.
C16_SortActionsEnabled ==
    (sort_list.asc_enabled \/ sort_list.desc_enabled) =>
        /\ sort_list.row \in 0..(Len(sort_list.items) - 1)
        /\ sort_list.items[sort_list.row + 1].checked

-----------------------------------------------------------------------------
(* The move buttons on any columns list: move_column_up and              *)
(* move_column_down applied, in any order, to every list of distinct     *)
(* host columns with any checks and any current row.                      *)

\* The items a columns list can hold
ListItems ==
    {ColumnListWidget_populate_column(all_columns[i][1], is_checked) :
        i \in DOMAIN all_columns, is_checked \in BOOLEAN}

\* The lists of items with distinct columns
ItemLists ==
    UNION {{items \in [1..n -> ListItems] :
               \A i \in 1..n : \A j \in 1..n :
                   items[i].col = items[j].col => i = j} :
           n \in 0..Len(all_columns)}

InitMove ==
    /\ default_library_values = DEFAULT_LIBRARY_VALUES
    /\ file_exists = FALSE
    /\ plugin_prefs = EmptyDict
    /\ db_prefs = EmptyDict
    /\ preferences = EmptyDict
    /\ views_held = FALSE
    /\ call = NoCall
    /\ gets = [l \in Libraries |-> 0]
    /\ writes = [l \in Libraries |-> 0]
    /\ views = EmptyDict
    /\ view_name = None
    /\ select_view_combo = [items |-> << >>, idx |-> -1]
    /\ auto_view_combo = [items |-> << >>, idx |-> -1]
    /\ \E items \in ItemLists : \E row \in -1..(Len(items) - 1) :
           columns_list = [items |-> items, row |-> row,
                           saved_column_widths |-> EmptyDict,
                           all_columns_with_widths |-> all_columns]
    /\ sort_list = [items |-> << >>, row |-> -1,
                    asc_enabled |-> TRUE, desc_enabled |-> TRUE]
    /\ apply_restriction_checkbox = FALSE
    /\ search_restriction_combo = -1
    /\ apply_search_checkbox = FALSE
    /\ saved_search_combo = -1
    /\ auto_apply_checkbox = FALSE
    /\ last = NoOperation
    /\ persisted_form = EmptyDict
    /\ left_form = EmptyDict
    /\ steps = 0

\* The button was clicked: last keeps the list as it was before, and what
\* the click before this one was and did.
Moved(op, list) ==
    /\ columns_list' = list
    /\ last' = [op |-> op,
                result |-> IF list.items = columns_list.items THEN "kept" ELSE "moved",
                text |-> None, before |-> columns_list,
                previous |-> <<last.op, last.result>>]
    /\ UNCHANGED <<storeVars, views, view_name, select_view_combo, auto_view_combo,
                   sort_list, apply_restriction_checkbox, search_restriction_combo,
                   apply_search_checkbox, saved_search_combo, auto_apply_checkbox,
                   persisted_form, left_form, steps>>

MoveColumnUp == Moved("move_column_up", move_column_up(columns_list))

MoveColumnDown == Moved("move_column_down", move_column_down(columns_list))

NextMove == MoveColumnUp \/ MoveColumnDown

SpecMove == InitMove /\ [][NextMove]_vars

\* The sequence with the elements at the positions i and j exchanged
Swapped(items, i, j) ==
    [k \in DOMAIN items |->
        IF k = i THEN items[j] ELSE IF k = j THEN items[i] ELSE items[k]]

\* C17: move_column_up (move_column_down) exchanges the current item with
\* the one above (below) it and makes the row it went to the current one;
\* with the current item in the first (last) row, or with no current row,
\* the order stays; the items, checks included, are the same before and
\* after; and a move_column_down right after a move_column_up that moved an
\* item gives back the list and the current row from before the two.
C17_MoveUpDown ==
    [][ LET idx == columns_list.row
            items == columns_list.items
        IN  /\ last'.op = "move_column_up" =>
                IF idx > 0
                THEN /\ columns_list'.items = Swapped(items, idx + 1, idx)
                     /\ columns_list'.row = idx - 1
                ELSE columns_list'.items = items
            /\ last'.op = "move_column_down" =>
                IF idx >= 0 /\ idx < Len(items) - 1
                THEN /\ columns_list'.items = Swapped(items, idx + 1, idx + 2)
                     /\ columns_list'.row = idx + 1
                ELSE columns_list'.items = items
            /\ {columns_list'.items[k] : k \in DOMAIN columns_list'.items}
                   = {items[k] : k \in DOMAIN items}
            /\ Len(columns_list'.items) = Len(items)
            /\ (last.op = "move_column_up" /\ last.result = "moved"
                    /\ last'.op = "move_column_down")
                   => /\ columns_list'.items = last.before.items
                      /\ columns_list'.row = last.before.row ]_vars

\* C17 witness: a move_column_down has moved the current, checked item one
\* row down, right after a move_column_up had moved it up.
C17_Witness ==
    /\ last.op = "move_column_down" /\ last.result = "moved"
    /\ last.previous = <<"move_column_up", "moved">>
    /\ last.before.row >= 0
    /\ columns_list.row = last.before.row + 1
    /\ columns_list.items[columns_list.row + 1].checked
    /\ columns_list.items = Swapped(last.before.items, last.before.row + 1,
                                    last.before.row + 2)

\* C18 as stated: the edited view's name is None only with an empty views
\* mapping and a key of the mapping otherwise, and the view of that name can
\* be edited, renamed and deleted: the form lists the host's columns for
\* it, and rename_view and delete_view find a view to act on.
C18_EditedViewIsAView ==
    /\ view_name = None => DOMAIN views = {}
    /\ DOMAIN views # {} =>
           /\ view_name \in DOMAIN views
           /\ view_name = currentText(select_view_combo)
           /\ Len(columns_list.items) = Len(all_columns)
           /\ Len(sort_list.items) = Len(all_columns)
    /\ last.result = "no view" => DOMAIN views = {}

\* C19 as stated: an add_view, and a rename_view or delete_view of a view
\* that is not the one selected in the auto-apply combo box, leave the text
\* selected there as it was; a rename_view of the view selected there
\* leaves the new name selected.
C19_AutoApplySelectionKept ==
    [][ /\ last'.result = "added" =>
               currentText(auto_view_combo') = currentText(auto_view_combo)
        /\ (last'.result \in {"renamed", "deleted"}
                /\ currentText(auto_view_combo) # view_name) =>
               currentText(auto_view_combo') = currentText(auto_view_combo)
        /\ (last'.result = "renamed"
                /\ currentText(auto_view_combo) = view_name) =>
               currentText(auto_view_combo') = strip(last'.text) ]_vars

\* The host's visible columns, in the order shown, with their widths, as
\* the host reports them: 'ondevice' (hidden, so without a width) and the
\* columns that are not hidden.
VisibleColumns == <<<<"ondevice", -1>>, <<"title", 10>>>>

\* C20 as stated: an add_view that adds a view first writes what the form
\* selects into the edited view's definition, then stores under the new
\* name a definition equal to it and makes the new view the edited and
\* selected one; with no view in the mapping the new definition has the
\* host's visible columns, no sort, and neither a search nor a restriction;
\* every other definition stays as it was, at this step and at every later
\* step that edits another view.
C20_AddViewCopies ==
    [][ /\ last'.result = "added" =>
            LET new_view_name == strip(last'.text)
            IN  /\ DOMAIN views' = (DOMAIN views) \cup {new_view_name}
                /\ new_view_name \notin DOMAIN views
                /\ view_name' = new_view_name
                /\ currentText(select_view_combo') = new_view_name
                /\ \A name \in (DOMAIN views) \ {view_name} : views'[name] = views[name]
                /\ IF DOMAIN views = {}
                   THEN views'[new_view_name] =
                            [columns |-> VisibleColumns, sort |-> << >>,
                             applyRestriction |-> FALSE, restrictionToApply |-> "",
                             applySearch |-> FALSE, searchToApply |-> ""]
                   ELSE /\ view_name \in DOMAIN views
                        /\ Written(views'[view_name], form_read)
                        /\ views'[new_view_name] = views'[view_name]
        /\ \A name \in (DOMAIN views) \cap (DOMAIN views') :
               name # view_name => views'[name] = views[name] ]_vars

\* C21 as stated: a rename_view to a name that collides with no other view
\* writes what the form selects into the view's definition and moves it to
\* the new key; the old key is gone, the other definitions and the number
\* of views are as before, and the renamed view is the edited one: it is
\* selected, the form shows it and lists the host's columns for it.  A
\* cancelled prompt and the unchanged name change nothing, and the view's
\* own name in another letter case is accepted.
C21_RenameMovesView ==
    [][ last'.op = "rename_view" =>
            LET new_view_name == strip(last'.text)
            IN  /\ last'.result = "renamed" =>
                    /\ new_view_name \notin DOMAIN views
                    /\ DOMAIN views' = ((DOMAIN views) \ {view_name}) \cup {new_view_name}
                    /\ Cardinality(DOMAIN views') = Cardinality(DOMAIN views)
                    /\ Written(views'[new_view_name], form_read)
                    /\ \A name \in (DOMAIN views) \ {view_name} :
                           views'[name] = views[name]
                    /\ view_name' = new_view_name
                    /\ currentText(select_view_combo') = new_view_name
                    /\ Shows(form_read', views'[new_view_name])
                    /\ Len(columns_list'.items) = Len(all_columns)
                /\ last'.result \in {"cancelled", "same name"} =>
                    /\ last'.result = "same name" => new_view_name = view_name
                    /\ UNCHANGED <<views, view_name, select_view_combo,
                                   auto_view_combo, formVars>>
                /\ (last'.result \notin {"no view", "cancelled"}
                        /\ new_view_name # view_name
                        /\ lower(new_view_name) = lower(view_name)) =>
                    last'.result = "renamed" ]_vars

\* The fields of the stored record that save_settings sets
SavedFields == {"views", "autoApplyView", "viewToApply"}

\* The store after holds the library's record with every field outside
\* SavedFields as the store before held it, lastView and SchemaVersion
\* among them, with no field added or removed, and holds every other
\* library's record as it was.
OtherFieldsKept(before, after) ==
    /\ DialogLibrary \in DOMAIN before
    /\ DOMAIN after = DOMAIN before
    /\ \A library_id \in (DOMAIN before) \ {DialogLibrary} :
           after[library_id] = before[library_id]
    /\ DOMAIN after[DialogLibrary] = DOMAIN before[DialogLibrary]
    /\ \A key \in (DOMAIN before[DialogLibrary]) \ SavedFields :
           after[DialogLibrary][key] = before[DialogLibrary][key]
    /\ {"lastView", "SchemaVersion"} \subseteq
           (DOMAIN before[DialogLibrary]) \ SavedFields

\* C22: save_settings leaves in the library's database record, as the
\* preferences table and as db.prefs hold it, every field but views,
\* autoApplyView and viewToApply as it was, lastView and SchemaVersion
\* among them, adds and removes no field, and sets those three to the
\* dialog's views mapping, the state of the auto-apply check box and the
\* text of the auto-apply combo box.
C22_SaveChangesThreeFields ==
    [][ last'.op = "save_settings" =>
            /\ OtherFieldsKept(preferences, preferences')
            /\ OtherFieldsKept(db_prefs, db_prefs')
            /\ preferences'[DialogLibrary]["views"] = views'
            /\ preferences'[DialogLibrary]["autoApplyView"] = auto_apply_checkbox
            /\ preferences'[DialogLibrary]["viewToApply"] = currentText(auto_view_combo)
            /\ db_prefs'[DialogLibrary] = preferences'[DialogLibrary] ]_vars

\* C22 witness: the view 'b', the stored lastView, was deleted or renamed
\* and the settings were saved: the stored views have no 'b' and the stored
\* lastView is still 'b'.
C22_Witness ==
    /\ last.op = "save_settings"
    /\ StoredIsHeld
    /\ Stored[KEY_LAST_VIEW] = "b"
    /\ "b" \notin DOMAIN Stored[KEY_VIEWS]
    /\ Stored[KEY_SCHEMA_VERSION] = DEFAULT_SCHEMA_VERSION

\* C23: a view that persist_view_config has written holds the two flags of
\* the form it was written from, the empty string as searchToApply when its
\* applySearch is false, and the empty string as restrictionToApply when
\* its applyRestriction is false, whatever the combo boxes had selected.
C23_NameBlankWhenFlagOff ==
    \A name \in (DOMAIN persisted_form) \cap (DOMAIN views) :
        /\ views[name].applySearch = persisted_form[name].apply_search_checkbox
        /\ views[name].applyRestriction =
               persisted_form[name].apply_restriction_checkbox
        /\ ~views[name].applySearch => views[name].searchToApply = ""
        /\ ~views[name].applyRestriction => views[name].restrictionToApply = ""

\* C23 witness: a view was written from a form whose apply-search check box
\* was unchecked while its combo box had the search 's' selected, and holds
\* no search name.
C23_Witness ==
    \E name \in (DOMAIN persisted_form) \cap (DOMAIN views) :
        /\ ~persisted_form[name].apply_search_checkbox
        /\ search_text(persisted_form[name].saved_search_combo) = "s"
        /\ ~views[name].applySearch
        /\ views[name].searchToApply = ""

====
